---- MODULE Spec2Model ----
(***************************************************************************)
(* Model of src/src/app/page.tsx: the Home component's price aggregation   *)
(* run (handleCalculatePrices) against the three upstream endpoints.       *)
(*                                                                         *)
(* Money is carried in whole cents (the source's price times 100), so that *)
(* Math.round(averagePrice * 100) / 100 is an integer rounding.            *)
(* An action is one synchronous stretch of the handler between two awaits. *)
(* A list that the JSON leaves out (null, undefined) is carried as the     *)
(* empty list, which is what !categories, || [] and ?. make of it.         *)
(* The button's disabled attribute is read at the click: React commits the *)
(* state update of a click before the next event is dispatched.            *)
(***************************************************************************)
EXTENDS Integers, Sequences, FiniteSets, TLC

\* ------------------------------------------------------------------ bounds
\* MaxRuns: button clicks that start a run.  MaxPage: the largest page index
\* a pager requests; a task whose listing service never answers an empty page
\* stays at its request for page MaxPage.
MaxRuns == 2
MaxPage == 3

\* --------------------------------------------------------- program values
null == "null"
pageSize == 10
TransportError == "Failed to fetch"

\* ----------------------------------------------------------- upstream data
Subcategory(name, code) == [name |-> name, code |-> code]
Category(children) == [childrenCategories |-> children]
TeacherCategoryInfo(name, type, price) ==
  [name |-> name, typeofPricePerHour |-> type, pricePerHour |-> price]
Teacher(id, categories) == [id |-> id, categories |-> categories]

\* An HTTP exchange as fetch() sees it: the request is rejected (transport
\* failure), or it resolves with a status (ok or not) and a JSON body.
Response(rejected, ok, body) == [rejected |-> rejected, ok |-> ok, body |-> body]

Names == {"Math", "math"}
Codes == {1, 2}

SubMath == Subcategory("Math", 1)
SubLower == Subcategory("math", 2)

Catalogs ==
  { << >>,
    << Category(<< >>) >>,
    << Category(<< SubLower >>), Category(<< >>), Category(<< SubMath >>) >>,
    << Category(<< SubMath, SubMath >>) >> }

CatalogResponses ==
  { Response(FALSE, TRUE, c) : c \in Catalogs }
    \cup { Response(FALSE, FALSE, << Category(<< SubMath >>) >>),
           Response(TRUE, FALSE, << >>) }

T1000 == Teacher("t1", << TeacherCategoryInfo("Math", "number", 1000) >>)
T1001 == Teacher("t2", << TeacherCategoryInfo("Math", "number", 1001) >>)
TBoth == Teacher("t3", << TeacherCategoryInfo("math", "number", 500),
                          TeacherCategoryInfo("Math", "number", 2000) >>)
TFirstBad == Teacher("t4", << TeacherCategoryInfo("Math", "string", 0),
                              TeacherCategoryInfo("Math", "number", 3000) >>)
TNegative == Teacher("t5", << TeacherCategoryInfo("Math", "number", -500),
                              TeacherCategoryInfo("math", "number", 0) >>)
TNone == Teacher("t6", << >>)

Page(teachers) == Response(FALSE, TRUE, [teachers |-> teachers])
EmptyPage == Page(<< >>)
FailedPage == Response(FALSE, FALSE, [teachers |-> << >>])
RejectedPage == Response(TRUE, FALSE, [teachers |-> << >>])

FullPage(first) == [i \in 1..pageSize |-> IF i = first THEN T1001 ELSE T1000]

\* What the listing service holds for one category code: the pages it
\* answers for page indices 0, 1, ... and the answer for every later index.
Listing(pages, rest) == [pages |-> pages, rest |-> rest]

Listings ==
  { Listing(<< >>, EmptyPage),
    Listing(<< Page(<< T1000, T1000, T1001 >>) >>, EmptyPage),
    Listing(<< Page(<< T1000, TBoth >>), FailedPage, Page(<< T1001 >>) >>, EmptyPage),
    Listing(<< Page(<< T1001, TBoth >>), RejectedPage, Page(<< T1000 >>) >>, EmptyPage),
    Listing(<< Page(<< TFirstBad, TNone >>) >>, EmptyPage),
    Listing(<< Page(<< TNegative >>) >>, EmptyPage),
    Listing(<< Page(FullPage(0)), Page(FullPage(1)),
               Page(<< T1000, T1000, T1000 >>) >>, EmptyPage),
    Listing(<< >>, Page(<< T1000 >>)) }

PublishResponses ==
  { Response(FALSE, TRUE, << >>), Response(FALSE, FALSE, << >>),
    Response(TRUE, FALSE, << >>) }

\* ------------------------------------------------------- values and errors
\* The result of calling an async function: it threw an Error carrying a
\* message, or it returned a value.
Thrown(message) == [threw |-> TRUE, message |-> message, value |-> << >>]
Returned(value) == [threw |-> FALSE, message |-> "", value |-> value]

Last(s) == s[Len(s)]

\* `${n}` for a number n of whole cents: 1001 is "10.01", 1050 is "10.5".
FormatNumber(cents) ==
  LET a == IF cents < 0 THEN 0 - cents ELSE cents
      whole == a \div 100
      frac == a % 100
      sign == IF cents < 0 THEN "-" ELSE ""
      tail == IF frac = 0 THEN ""
              ELSE IF frac % 10 = 0 THEN "." \o ToString(frac \div 10)
              ELSE IF frac < 10 THEN ".0" \o ToString(frac)
              ELSE "." \o ToString(frac)
  IN sign \o ToString(whole) \o tail

\* --------------------------------------------------------- fetchCategories
\* fetchCategories without its check of response.ok
fetchCategoriesUnchecked(response) ==
  IF response.rejected THEN Thrown(TransportError)
  ELSE Returned(response.body)

fetchCategories(response) ==
  IF response.rejected THEN Thrown(TransportError)
  ELSE IF ~response.ok THEN Thrown("Failed to fetch categories")
  ELSE Returned(response.body)

\* categories.flatMap((category) => category.childrenCategories || [])
RECURSIVE flatMap(_)
flatMap(categories) ==
  IF categories = << >> THEN << >>
  ELSE Head(categories).childrenCategories \o flatMap(Tail(categories))

\* ------------------------------------------------ fetchAllTeachersForCategory
SearchRequest(categoryId, page) ==
  [url |-> "/search",
   body |-> [categories |-> << categoryId >>, page |-> page, pageSize |-> pageSize]]

\* data.teachers || []
teachersOnPage(response) == response.body.teachers

\* The loop stopping at the first page shorter than pageSize
whileTurnShortPage(response) ==
  IF response.rejected THEN "throw"
  ELSE IF ~response.ok THEN "break"
  ELSE IF Len(teachersOnPage(response)) < pageSize THEN "break"
  ELSE "continue"

\* The loop throwing on a failed status instead of breaking
whileTurnThrowOnStatus(response) ==
  IF response.rejected THEN "throw"
  ELSE IF ~response.ok THEN "throw"
  ELSE IF Len(teachersOnPage(response)) = 0 THEN "break"
  ELSE "continue"

\* One turn of the while (true) loop, on the answer to its request: fetch()
\* throws, or the loop breaks (status not ok, or empty page), or it goes on
whileTurn(response) ==
  IF response.rejected THEN "throw"
  ELSE IF ~response.ok THEN "break"
  ELSE IF Len(teachersOnPage(response)) = 0 THEN "break"
  ELSE "continue"

\* allTeachers = [...allTeachers, ...teachersOnPage]
appendPage(allTeachers, teachers) == allTeachers \o teachers

\* The loop without page++
samePage(page) == page

\* page++
nextPage(page) == page + 1

\* -------------------------------------------------------------- aggregation
\* teacher.categories?.find((cat) => cat.name === subcategory.name):
\* the index of the first entry with that name, 0 when there is none.
RECURSIVE findFrom(_, _, _)
findFrom(categories, name, i) ==
  IF i > Len(categories) THEN 0
  ELSE IF categories[i].name = name THEN i
  ELSE findFrom(categories, name, i + 1)

\* The index of the last entry with that name instead of the first
findLast(categories, name) ==
  LET matches == { j \in 1..Len(categories) : categories[j].name = name }
  IN IF matches = {} THEN 0
     ELSE CHOOSE j \in matches : \A h \in matches : h <= j

\* The name in lower case
toLowerCase(name) == IF name = "Math" THEN "math" ELSE name

\* The index of the first entry with that name, whatever the case of letters
findIgnoringCase(categories, name) ==
  LET matches == { j \in 1..Len(categories) :
                     toLowerCase(categories[j].name) = toLowerCase(name) }
  IN IF matches = {} THEN 0
     ELSE CHOOSE j \in matches : \A h \in matches : j <= h

find(categories, name) == findFrom(categories, name, 1)

\* relevantCategory && typeof relevantCategory.pricePerHour === "number"
hasPrice(teacher, name) ==
  LET k == find(teacher.categories, name)
  IN k # 0 /\ teacher.categories[k].typeofPricePerHour = "number"

relevantPrice(teacher, name) ==
  teacher.categories[find(teacher.categories, name)].pricePerHour

\* teachers.forEach(...): what the teachers from the i-th on add to
\* totalPrice and to teachersWithPriceForCategory
RECURSIVE addedPrice(_, _, _)
addedPrice(teachers, name, i) ==
  IF i > Len(teachers) THEN 0
  ELSE (IF hasPrice(teachers[i], name) THEN relevantPrice(teachers[i], name) ELSE 0)
       + addedPrice(teachers, name, i + 1)

RECURSIVE addedCount(_, _, _)
addedCount(teachers, name, i) ==
  IF i > Len(teachers) THEN 0
  ELSE (IF hasPrice(teachers[i], name) THEN 1 ELSE 0)
       + addedCount(teachers, name, i + 1)

\* let totalPrice = 0; let teachersWithPriceForCategory = 0; after the forEach
aggregate(teachers, name) ==
  [totalPrice |-> addedPrice(teachers, name, 1),
   teachersWithPriceForCategory |-> addedCount(teachers, name, 1)]

\* Math.ceil(num / den) for den > 0
MathCeil(num, den) == 0 - ((0 - num) \div den)

\* Math.round(num / den) for den > 0: the nearest integer, ties upwards
MathRound(num, den) == (2 * num + den) \div (2 * den)

\* Math.round(averagePrice * 100) / 100, in cents
roundedAveragePrice(agg) ==
  IF agg.teachersWithPriceForCategory > 0
  THEN MathRound(agg.totalPrice, agg.teachersWithPriceForCategory)
  ELSE 0

\* --------------------------------------------------------- postAveragePrice
PostRequest(categoryName, averagePrice) ==
  [url |-> "/average-price",
   body |-> [categoryName |-> categoryName, averagePrice |-> averagePrice]]

\* postAveragePrice without its check of response.ok
postAveragePriceUnchecked(response, categoryName) ==
  IF response.rejected THEN Thrown(TransportError)
  ELSE Returned(response)

postAveragePrice(response, categoryName) ==
  IF response.rejected THEN Thrown(TransportError)
  ELSE IF ~response.ok
       THEN Thrown("Failed to post average price for " \o categoryName)
  ELSE Returned(response)

\* ------------------------------------------------------ CalculationResult
Pending == [categoryName |-> "", averagePrice |-> 0, status |-> "pending", message |-> ""]

SuccessResult(name, average, count) ==
  [categoryName |-> name, averagePrice |-> average, status |-> "success",
   message |-> "Successfully posted average price of " \o FormatNumber(average)
               \o " for " \o ToString(count) \o " teachers."]

ErrorResult(name, message) ==
  [categoryName |-> name, averagePrice |-> 0, status |-> "error", message |-> message]

\* -------------------------------------------------------------------- state
VARIABLES
  categoriesService,  \* upstream: the answer to GET /categories
  searchService,      \* upstream: category code -> Listing served by POST /search
  priceService,       \* upstream: category name -> answer to POST /average-price
  isLoading,          \* useState(false)
  results,            \* useState([])
  error,              \* useState(null)
  run                 \* one record per invocation of handleCalculatePrices

upstream == << categoriesService, searchService, priceService >>
vars == << categoriesService, searchService, priceService, isLoading, results, error, run >>

\* The locals of one invocation of handleCalculatePrices:
\*   pc               where the invocation is suspended
\*   allSubcategories the flattened catalog
\*   task             one record per calculation promise (the closure's locals)
\*   sent             per task, the requests it has issued, in order
\*   completed        the task indices in the order their promises settled
\*   settledResults   what await Promise.all(...) returned
\*   errors           the non-null arguments of setError, in order
NewRun ==
  [pc |-> "awaitCategories", allSubcategories |-> << >>, task |-> << >>,
   sent |-> << >>, completed |-> << >>, settledResults |-> << >>,
   errors |-> << >>]

\* The locals of one calculation promise, suspended at its first page request
startTask ==
  [pc |-> "awaitSearch", page |-> 0, allTeachers |-> << >>, totalPrice |-> 0,
   teachersWithPriceForCategory |-> 0, roundedAveragePrice |-> 0, result |-> Pending]

\* The upstream's answers, as functions of the request
search(request) ==
  LET listing == searchService[request.body.categories[1]]
      p == request.body.page
  IN IF p < Len(listing.pages) THEN listing.pages[p + 1] ELSE listing.rest

publish(request) == priceService[request.body.categoryName]

\* The upstream varies only where the catalog can lead a run: the listing of a
\* code and the publish answer of a name that the catalog does not hold are
\* never asked for, and stay at one value.
Asked == flatMap(categoriesService.body)
AskedCodes == { Asked[i].code : i \in 1..Len(Asked) }
AskedNames == { Asked[i].name : i \in 1..Len(Asked) }

Init ==
  /\ categoriesService \in CatalogResponses
  /\ searchService \in [Codes -> Listings]
  /\ \A c \in Codes \ AskedCodes : searchService[c] = Listing(<< >>, EmptyPage)
  /\ priceService \in [Names -> PublishResponses]
  /\ \A n \in Names \ AskedNames : priceService[n] = Response(FALSE, TRUE, << >>)
  /\ isLoading = FALSE
  /\ results = << >>
  /\ error = null
  /\ run = << >>

\* The button without its disabled attribute
neverDisabled == FALSE

\* <button onClick={handleCalculatePrices} disabled={isLoading}>
disabled == isLoading

\* The click without setResults([])
ClickKeepingResults ==
  /\ ~disabled
  /\ Len(run) < MaxRuns
  /\ isLoading' = TRUE
  /\ error' = null
  /\ run' = Append(run, NewRun)
  /\ UNCHANGED << results, upstream >>

\* The button is clicked: handleCalculatePrices runs up to await fetchCategories()
Click ==
  /\ ~disabled
  /\ Len(run) < MaxRuns
  /\ isLoading' = TRUE
  /\ error' = null
  /\ results' = << >>
  /\ run' = Append(run, NewRun)
  /\ UNCHANGED upstream

\* fetchCategories() threw: catch (e) { setError(e.message) } finally { ... }
CatalogFailed(r) ==
  LET categories == fetchCategories(categoriesService)
  IN /\ run[r].pc = "awaitCategories"
     /\ categories.threw
     /\ error' = categories.message
     /\ isLoading' = FALSE
     /\ run' = [run EXCEPT ![r].pc = "done",
                           ![r].errors = Append(@, categories.message)]
     /\ UNCHANGED << results, upstream >>

\* The early return without the check of allSubcategories.length
nothingToProcessUnflattened(categories) ==
  IF Len(categories) = 0 THEN "No categories found." ELSE null

\* The message of the early return, null when there is something to process
nothingToProcess(categories) ==
  IF Len(categories) = 0 THEN "No categories found."
  ELSE IF Len(flatMap(categories)) = 0 THEN "No subcategories found to process."
  ELSE null

\* The early return without the finally block
CatalogEmptyStillLoading(r) ==
  LET categories == fetchCategories(categoriesService)
  IN /\ run[r].pc = "awaitCategories"
     /\ ~categories.threw
     /\ nothingToProcess(categories.value) # null
     /\ error' = nothingToProcess(categories.value)
     /\ run' = [run EXCEPT ![r].pc = "done",
                           ![r].errors = Append(@, nothingToProcess(categories.value))]
     /\ UNCHANGED << isLoading, results, upstream >>

\* setError(...); return; finally { setIsLoading(false) }
CatalogEmpty(r) ==
  LET categories == fetchCategories(categoriesService)
  IN /\ run[r].pc = "awaitCategories"
     /\ ~categories.threw
     /\ nothingToProcess(categories.value) # null
     /\ error' = nothingToProcess(categories.value)
     /\ isLoading' = FALSE
     /\ run' = [run EXCEPT ![r].pc = "done",
                           ![r].errors = Append(@, nothingToProcess(categories.value))]
     /\ UNCHANGED << results, upstream >>

\* allSubcategories.map(async (subcategory) => ...): every calculation promise
\* runs up to its first await, the request for page 0
Launch(r) ==
  LET categories == fetchCategories(categoriesService)
      subs == flatMap(categories.value)
  IN /\ run[r].pc = "awaitCategories"
     /\ ~categories.threw
     /\ nothingToProcess(categories.value) = null
     /\ run' = [run EXCEPT
                  ![r].pc = "awaitAll",
                  ![r].allSubcategories = subs,
                  ![r].task = [i \in 1..Len(subs) |-> startTask],
                  ![r].sent = [i \in 1..Len(subs) |->
                                 << SearchRequest(subs[i].code, 0) >>]]
     /\ UNCHANGED << isLoading, results, error, upstream >>

\* A non-empty page arrives: accumulate it and request the next page
PageReceived(r, i) ==
  LET t == run[r].task[i]
      response == search(Last(run[r].sent[i]))
      subcategory == run[r].allSubcategories[i]
  IN /\ run[r].pc = "awaitAll"
     /\ t.pc = "awaitSearch"
     /\ whileTurn(response) = "continue"
     /\ nextPage(t.page) <= MaxPage
     /\ run' = [run EXCEPT
                  ![r].task[i] =
                     [t EXCEPT !.allTeachers = appendPage(@, teachersOnPage(response)),
                               !.page = nextPage(@)],
                  ![r].sent[i] =
                     Append(@, SearchRequest(subcategory.code, nextPage(t.page)))]
     /\ UNCHANGED << isLoading, results, error, upstream >>

\* The calculation promise without await postAveragePrice(...): it resolves
\* with a success as soon as the average is computed
PagerReturnedWithoutPost(r, i) ==
  LET t == run[r].task[i]
      response == search(Last(run[r].sent[i]))
      subcategory == run[r].allSubcategories[i]
      agg == aggregate(t.allTeachers, subcategory.name)
  IN /\ run[r].pc = "awaitAll"
     /\ t.pc = "awaitSearch"
     /\ whileTurn(response) = "break"
     /\ run' = [run EXCEPT
                  ![r].task[i] =
                     [t EXCEPT !.pc = "done",
                               !.totalPrice = agg.totalPrice,
                               !.teachersWithPriceForCategory =
                                  agg.teachersWithPriceForCategory,
                               !.roundedAveragePrice = roundedAveragePrice(agg),
                               !.result = SuccessResult(subcategory.name,
                                                        roundedAveragePrice(agg),
                                                        agg.teachersWithPriceForCategory)],
                  ![r].completed = Append(@, i)]
     /\ UNCHANGED << isLoading, results, error, upstream >>

\* The loop breaks (failed status or empty page): the pager returns, the
\* listings are aggregated and the average is posted
PagerReturned(r, i) ==
  LET t == run[r].task[i]
      response == search(Last(run[r].sent[i]))
      subcategory == run[r].allSubcategories[i]
      agg == aggregate(t.allTeachers, subcategory.name)
  IN /\ run[r].pc = "awaitAll"
     /\ t.pc = "awaitSearch"
     /\ whileTurn(response) = "break"
     /\ run' = [run EXCEPT
                  ![r].task[i] =
                     [t EXCEPT !.pc = "awaitPost",
                               !.totalPrice = agg.totalPrice,
                               !.teachersWithPriceForCategory =
                                  agg.teachersWithPriceForCategory,
                               !.roundedAveragePrice = roundedAveragePrice(agg)],
                  ![r].sent[i] =
                     Append(@, PostRequest(subcategory.name, roundedAveragePrice(agg)))]
     /\ UNCHANGED << isLoading, results, error, upstream >>

\* fetch() of a page rejects: the exception leaves the pager and is caught
\* by the calculation promise's catch
PagerThrew(r, i) ==
  LET t == run[r].task[i]
      response == search(Last(run[r].sent[i]))
      subcategory == run[r].allSubcategories[i]
  IN /\ run[r].pc = "awaitAll"
     /\ t.pc = "awaitSearch"
     /\ whileTurn(response) = "throw"
     /\ run' = [run EXCEPT
                  ![r].task[i] =
                     [t EXCEPT !.pc = "done",
                               !.result = ErrorResult(subcategory.name, TransportError)],
                  ![r].completed = Append(@, i)]
     /\ UNCHANGED << isLoading, results, error, upstream >>

\* postAveragePrice returned: the calculation promise resolves with a success
Published(r, i) ==
  LET t == run[r].task[i]
      subcategory == run[r].allSubcategories[i]
      posted == postAveragePrice(publish(Last(run[r].sent[i])), subcategory.name)
  IN /\ run[r].pc = "awaitAll"
     /\ t.pc = "awaitPost"
     /\ ~posted.threw
     /\ run' = [run EXCEPT
                  ![r].task[i] =
                     [t EXCEPT !.pc = "done",
                               !.result = SuccessResult(subcategory.name,
                                                        t.roundedAveragePrice,
                                                        t.teachersWithPriceForCategory)],
                  ![r].completed = Append(@, i)]
     /\ UNCHANGED << isLoading, results, error, upstream >>

\* The calculation promise's catch also calling setError(catError.message)
PublishThrewSettingError(r, i) ==
  LET t == run[r].task[i]
      subcategory == run[r].allSubcategories[i]
      posted == postAveragePrice(publish(Last(run[r].sent[i])), subcategory.name)
  IN /\ run[r].pc = "awaitAll"
     /\ t.pc = "awaitPost"
     /\ posted.threw
     /\ error' = posted.message
     /\ run' = [run EXCEPT
                  ![r].task[i] =
                     [t EXCEPT !.pc = "done",
                               !.result = ErrorResult(subcategory.name, posted.message)],
                  ![r].completed = Append(@, i),
                  ![r].errors = Append(@, posted.message)]
     /\ UNCHANGED << isLoading, results, upstream >>

\* The calculation promise without its try/catch: the promise rejects, so does
\* Promise.all, and the handler's catch and finally run
PublishThrewUncaught(r, i) ==
  LET t == run[r].task[i]
      subcategory == run[r].allSubcategories[i]
      posted == postAveragePrice(publish(Last(run[r].sent[i])), subcategory.name)
  IN /\ run[r].pc = "awaitAll"
     /\ t.pc = "awaitPost"
     /\ posted.threw
     /\ error' = posted.message
     /\ isLoading' = FALSE
     /\ run' = [run EXCEPT
                  ![r].pc = "done",
                  ![r].task[i] = [t EXCEPT !.pc = "done"],
                  ![r].completed = Append(@, i),
                  ![r].errors = Append(@, posted.message)]
     /\ UNCHANGED << results, upstream >>

\* postAveragePrice threw: the calculation promise resolves with an error
PublishThrew(r, i) ==
  LET t == run[r].task[i]
      subcategory == run[r].allSubcategories[i]
      posted == postAveragePrice(publish(Last(run[r].sent[i])), subcategory.name)
  IN /\ run[r].pc = "awaitAll"
     /\ t.pc = "awaitPost"
     /\ posted.threw
     /\ run' = [run EXCEPT
                  ![r].task[i] =
                     [t EXCEPT !.pc = "done",
                               !.result = ErrorResult(subcategory.name, posted.message)],
                  ![r].completed = Append(@, i)]
     /\ UNCHANGED << isLoading, results, error, upstream >>

\* The values gathered in the order the promises settled in
PromiseAllByCompletion(task, completed) ==
  [k \in 1..Len(task) |-> task[completed[k]].result]

\* await Promise.all(calculationPromises): the values in the promises' order,
\* whatever the order they settled in
PromiseAll(task, completed) == [i \in 1..Len(task) |-> task[i].result]

\* Promise.race in the place of Promise.all: the run goes on as soon as one
\* calculation promise has settled
AnySettled(r) ==
  /\ run[r].pc = "awaitAll"
  /\ \E i \in 1..Len(run[r].task) : run[r].task[i].pc = "done"
  /\ results' = PromiseAll(run[r].task, run[r].completed)
  /\ isLoading' = FALSE
  /\ run' = [run EXCEPT ![r].pc = "done",
                        ![r].settledResults =
                           PromiseAll(run[r].task, run[r].completed)]
  /\ UNCHANGED << error, upstream >>

\* Every calculation promise has settled: setResults(settledResults) and
\* finally { setIsLoading(false) }
AllSettled(r) ==
  /\ run[r].pc = "awaitAll"
  /\ \A i \in 1..Len(run[r].task) : run[r].task[i].pc = "done"
  /\ results' = PromiseAll(run[r].task, run[r].completed)
  /\ isLoading' = FALSE
  /\ run' = [run EXCEPT ![r].pc = "done",
                        ![r].settledResults =
                           PromiseAll(run[r].task, run[r].completed)]
  /\ UNCHANGED << error, upstream >>

Runs == 1..Len(run)
Tasks(r) == 1..Len(run[r].task)

Next ==
  \/ Click
  \/ \E r \in Runs : CatalogFailed(r)
  \/ \E r \in Runs : CatalogEmpty(r)
  \/ \E r \in Runs : Launch(r)
  \/ \E r \in Runs : \E i \in Tasks(r) : PageReceived(r, i)
  \/ \E r \in Runs : \E i \in Tasks(r) : PagerReturned(r, i)
  \/ \E r \in Runs : \E i \in Tasks(r) : PagerThrew(r, i)
  \/ \E r \in Runs : \E i \in Tasks(r) : Published(r, i)
  \/ \E r \in Runs : \E i \in Tasks(r) : PublishThrew(r, i)
  \/ \E r \in Runs : AllSettled(r)

Spec == Init /\ [][Next]_vars

\* ------------------------------------------------------------------ fairness
\* The positions a calculation promise can have in allSubcategories
TaskIds == UNION { 1..Len(flatMap(c.body)) : c \in CatalogResponses }

\* The answer to fetchCategories() arrives and the handler goes on
CategoriesAnswered(r) ==
  r \in Runs /\ (CatalogFailed(r) \/ CatalogEmpty(r) \/ Launch(r))

\* The answer to the pending page request arrives and the pager goes on
SearchAnswered(r, i) ==
  /\ r \in Runs
  /\ i \in Tasks(r)
  /\ (PageReceived(r, i) \/ PagerReturned(r, i) \/ PagerThrew(r, i))

\* The answer to the pending post arrives and the calculation promise settles
PostAnswered(r, i) ==
  /\ r \in Runs
  /\ i \in Tasks(r)
  /\ (Published(r, i) \/ PublishThrew(r, i))

\* The continuation of await Promise.all(...) is run
AllAnswered(r) == r \in Runs /\ AllSettled(r)

\* Every issued request eventually gets its response and every continuation
\* that is ready is eventually run by the event loop; nothing obliges the user
\* to click. A handler waits for one thing at a time and so does a calculation
\* promise, hence one condition for each of them.
FairSpec ==
  /\ Spec
  /\ \A r \in 1..MaxRuns :
       /\ WF_vars(CategoriesAnswered(r) \/ AllAnswered(r))
       /\ \A i \in TaskIds : WF_vars(SearchAnswered(r, i) \/ PostAnswered(r, i))

\* =================================================================== claims
Finished(r) == run[r].pc = "done"
IsLast(r) == r = Len(run)
CatalogFetchFailed == categoriesService.rejected \/ ~categoriesService.ok
CatalogSubcategories == flatMap(categoriesService.body)

\* C1: a finished run over a catalog with at least one subcategory has a
\* Report with exactly one outcome per subcategory of the flattened catalog,
\* outcome i naming subcategory i, whatever order the tasks completed in.
ReportFollowsCatalogOrder ==
  \A r \in Runs :
    (Finished(r) /\ ~CatalogFetchFailed /\ Len(CatalogSubcategories) > 0) =>
      /\ Len(run[r].settledResults) = Len(CatalogSubcategories)
      /\ \A i \in 1..Len(CatalogSubcategories) :
           run[r].settledResults[i].categoryName = CatalogSubcategories[i].name
      /\ IsLast(r) => results = run[r].settledResults

\* C1 witness: a Report is out although the last subcategory's task was the
\* first to complete and the outcomes name different subcategories.
ReportAfterReverseCompletion ==
  \E r \in Runs :
    /\ Finished(r)
    /\ Len(results) >= 2
    /\ results = run[r].settledResults
    /\ run[r].completed[1] = Len(results)
    /\ results[1].categoryName # results[Len(results)].categoryName

\* C2: when the catalog fetch fails, the run ends with exactly one top-level
\* error and an empty Report, and it never issues a search or publish request.
CatalogFailureIsFatal ==
  \A r \in Runs :
    CatalogFetchFailed =>
      /\ run[r].sent = << >>
      /\ run[r].task = << >>
      /\ Finished(r) =>
           /\ Len(run[r].errors) = 1
           /\ run[r].settledResults = << >>
           /\ IsLast(r) => (error = run[r].errors[1] /\ error # null /\ results = << >>)

\* C2 witness: a run has ended on a catalog answered with a failure status.
RunEndedOnCatalogFailure ==
  \E r \in Runs :
    /\ Finished(r)
    /\ ~categoriesService.ok
    /\ ~categoriesService.rejected
    /\ error = "Failed to fetch categories"
    /\ ~isLoading

\* ------------------------------------------------------ C3, C4
Subcategories(r) == run[r].allSubcategories
SearchRequestsOf(r, i) == SelectSeq(run[r].sent[i], LAMBDA q : q.url = "/search")
PostRequestsOf(r, i) == SelectSeq(run[r].sent[i], LAMBDA q : q.url = "/average-price")
PublishFails(name) == priceService[name].rejected \/ ~priceService[name].ok

AllSearchesSucceeded(r) ==
  \A i \in Tasks(r) :
    \A k \in 1..Len(SearchRequestsOf(r, i)) :
      LET answer == search(SearchRequestsOf(r, i)[k])
      IN ~answer.rejected /\ answer.ok

\* C3: when every request but the publishes of a set F of subcategories
\* succeeds, the Report has one outcome per subcategory, Failure exactly for
\* those in F and Success for the others; and a task that awaits an answer can
\* always take its next step, whatever state its siblings are in.
PublishFailureIsLocal ==
  \A r \in Runs :
    /\ (Finished(r) /\ run[r].task # << >> /\ AllSearchesSucceeded(r)) =>
         /\ Len(run[r].settledResults) = Len(CatalogSubcategories)
         /\ \A i \in 1..Len(CatalogSubcategories) :
              run[r].settledResults[i].status =
                IF PublishFails(CatalogSubcategories[i].name) THEN "error" ELSE "success"
    /\ \A i \in Tasks(r) :
         /\ run[r].task[i].pc = "awaitPost" =>
              ENABLED (Published(r, i) \/ PublishThrew(r, i))
         /\ (run[r].task[i].pc = "awaitSearch" /\ run[r].task[i].page < MaxPage) =>
              ENABLED (PageReceived(r, i) \/ PagerReturned(r, i) \/ PagerThrew(r, i))

\* C3 witness: a Report in which the task whose publish failed settled first
\* and its sibling, settling after it, is a Success.
SuccessAfterSiblingPublishFailure ==
  \E r \in Runs : \E i, j \in Tasks(r) :
    /\ Finished(r)
    /\ AllSearchesSucceeded(r)
    /\ i # j
    /\ run[r].completed = << i, j >>
    /\ results[i].status = "error"
    /\ results[i].message =
         "Failed to post average price for " \o Subcategories(r)[i].name
    /\ results[j].status = "success"

InFlight == { r \in Runs : ~Finished(r) }

\* C4: at most one run is in flight at any time, and while one is in flight a
\* further trigger is rejected (the click is not enabled).
AtMostOneRunInFlight ==
  /\ Cardinality(InFlight) <= 1
  /\ InFlight # {} => ~ENABLED Click

\* C4 witness: the first run awaits its tasks, a second run could still be
\* started as far as the bound goes, and the click is not enabled.
TriggerRejectedWhileRunning ==
  /\ Len(run) = 1
  /\ Len(run) < MaxRuns
  /\ run[1].pc = "awaitAll"
  /\ disabled
  /\ ~ENABLED Click

\* ------------------------------------------------------ C5, C6, C7
RECURSIVE Concat(_)
Concat(pages) ==
  IF pages = << >> THEN << >>
  ELSE Head(pages).body.teachers \o Concat(Tail(pages))

NonEmptyPage(answer) == ~answer.rejected /\ answer.ok /\ Len(answer.body.teachers) > 0
ListingOf(r, i) == searchService[Subcategories(r)[i].code]
PagerOver(r, i) == run[r].task[i].pc # "awaitSearch"

\* The listing answers k non-empty pages and then empty pages
Exhaustible(listing) ==
  /\ \A p \in 1..Len(listing.pages) : NonEmptyPage(listing.pages[p])
  /\ listing.rest = EmptyPage

\* C5: over k non-empty pages followed by an empty one, the pager returns the
\* concatenation of the k pages in page order after exactly k+1 requests,
\* with page indices 0..k and page size 10.
PagerWalksAllPages ==
  \A r \in Runs : \A i \in Tasks(r) :
    LET k == Len(ListingOf(r, i).pages)
        requests == SearchRequestsOf(r, i)
    IN (Exhaustible(ListingOf(r, i)) /\ PagerOver(r, i)) =>
         /\ run[r].task[i].allTeachers = Concat(ListingOf(r, i).pages)
         /\ Len(requests) = k + 1
         /\ \A n \in 1..(k + 1) :
              requests[n].body = [categories |-> << Subcategories(r)[i].code >>,
                                  page |-> n - 1, pageSize |-> 10]

\* C5 witness: pages of sizes 10, 10, 3, 0 gave 23 listings in 4 requests.
TwentyThreeListingsInFourRequests ==
  \E r \in Runs : \E i \in Tasks(r) :
    /\ PagerOver(r, i)
    /\ Len(ListingOf(r, i).pages) = 3
    /\ Len(ListingOf(r, i).pages[1].body.teachers) = 10
    /\ Len(run[r].task[i].allTeachers) = 23
    /\ Len(SearchRequestsOf(r, i)) = 4

\* The 1-based position of the first page that is not a non-empty page
FirstStop(listing) ==
  CHOOSE p \in 1..(Len(listing.pages) + 1) :
    /\ \A q \in 1..(p - 1) : NonEmptyPage(listing.pages[q])
    /\ p <= Len(listing.pages) => ~NonEmptyPage(listing.pages[p])

StopsOnStatus(listing) ==
  /\ FirstStop(listing) <= Len(listing.pages)
  /\ ~listing.pages[FirstStop(listing)].rejected
  /\ ~listing.pages[FirstStop(listing)].ok

StopsOnTransport(listing) ==
  /\ FirstStop(listing) <= Len(listing.pages)
  /\ listing.pages[FirstStop(listing)].rejected

PartialListings(listing) == Concat(SubSeq(listing.pages, 1, FirstStop(listing) - 1))

\* The task went on over the partial listing set: one publish request with
\* the average over it, and a Success over it when the publish succeeds
ContinuedOverPartial(r, i) ==
  LET name == Subcategories(r)[i].name
      agg == aggregate(PartialListings(ListingOf(r, i)), name)
  IN /\ Len(SearchRequestsOf(r, i)) = FirstStop(ListingOf(r, i))
     /\ run[r].task[i].allTeachers = PartialListings(ListingOf(r, i))
     /\ PostRequestsOf(r, i) = << PostRequest(name, roundedAveragePrice(agg)) >>
     /\ (run[r].task[i].pc = "done" /\ ~PublishFails(name)) =>
          run[r].task[i].result =
            SuccessResult(name, roundedAveragePrice(agg), agg.teachersWithPriceForCategory)

\* C6: when page p is answered with a failure status, the pager asks for no
\* further page and returns the listings of pages 0..p-1; the task aggregates
\* and publishes over them and is a plain Success when the publish succeeds.
StatusFailureKeepsPartial ==
  \A r \in Runs : \A i \in Tasks(r) :
    (StopsOnStatus(ListingOf(r, i)) /\ PagerOver(r, i)) => ContinuedOverPartial(r, i)

\* C6 witness: a Success over the two listings of page 0, page 1 having failed.
SuccessOverPartialListings ==
  \E r \in Runs : \E i \in Tasks(r) :
    /\ StopsOnStatus(ListingOf(r, i))
    /\ FirstStop(ListingOf(r, i)) = 2
    /\ run[r].task[i].pc = "done"
    /\ run[r].task[i].result.status = "success"
    /\ run[r].task[i].result.averagePrice = 1500
    /\ Len(run[r].task[i].allTeachers) = 2

\* C7: when a page request fails in transport, the pager returns what it has
\* accumulated and the task still aggregates and publishes over it.
TransportFailureKeepsPartial ==
  \A r \in Runs : \A i \in Tasks(r) :
    (StopsOnTransport(ListingOf(r, i)) /\ run[r].task[i].pc = "done") =>
       ContinuedOverPartial(r, i)

\* ------------------------------------------------------ C8, C9, C10
CatalogFailureMessages == { "Failed to fetch categories", TransportError }

\* C8: over a catalog that is fetched but has no subcategory, the run ends
\* with one top-level error that is none of the catalog-failure errors, with
\* an empty Report, and it never issues a search or publish request.
EmptyCatalogIsFatal ==
  \A r \in Runs :
    (~CatalogFetchFailed /\ Len(CatalogSubcategories) = 0) =>
      /\ run[r].sent = << >>
      /\ Finished(r) =>
           /\ Len(run[r].errors) = 1
           /\ run[r].errors[1] \notin CatalogFailureMessages \cup { null }
           /\ run[r].settledResults = << >>
           /\ IsLast(r) => (error = run[r].errors[1] /\ results = << >>)

\* C8 witness: a run has ended over categories that have no subcategories.
RunEndedOnEmptyCatalog ==
  \E r \in Runs :
    /\ Finished(r)
    /\ Len(categoriesService.body) > 0
    /\ error = "No subcategories found to process."
    /\ ~isLoading
    /\ results = << >>

\* The listing's first entry of that name carries a number
Contributes(teacher, name) ==
  \E j \in 1..Len(teacher.categories) :
    /\ teacher.categories[j].name = name
    /\ \A h \in 1..(j - 1) : teacher.categories[h].name # name
    /\ teacher.categories[j].typeofPricePerHour = "number"

Contributing(teachers, name) ==
  { k \in 1..Len(teachers) : Contributes(teachers[k], name) }

\* C9: in every Report the average of every outcome is never negative and is
\* zero only when no listing contributed, and the aggregator counts a matched
\* price only when it is a non-negative number.
AverageNeverNegative ==
  \A r \in Runs : \A i \in 1..Len(run[r].settledResults) :
    LET outcome == run[r].settledResults[i]
        t == run[r].task[i]
        name == Subcategories(r)[i].name
    IN /\ outcome.averagePrice >= 0
       /\ outcome.averagePrice = 0 => t.teachersWithPriceForCategory = 0
       /\ t.teachersWithPriceForCategory =
            Cardinality({ k \in Contributing(t.allTeachers, name) :
                            relevantPrice(t.allTeachers[k], name) >= 0 })

\* C10: a task whose retrieved listings contain no contributing entry
\* computes and publishes the average 0, and is a Success with average 0
\* when the publish succeeds.
ZeroContributionsIsSuccess ==
  \A r \in Runs : \A i \in Tasks(r) :
    LET t == run[r].task[i]
        name == Subcategories(r)[i].name
    IN (t.pc \in { "awaitPost", "done" } /\ PostRequestsOf(r, i) # << >>
          /\ Contributing(t.allTeachers, name) = {}) =>
         /\ t.roundedAveragePrice = 0
         /\ PostRequestsOf(r, i) = << PostRequest(name, 0) >>
         /\ (t.pc = "done" /\ ~PublishFails(name)) =>
              (t.result.status = "success" /\ t.result.averagePrice = 0)

\* C10 witness: a Success with average 0 over a non-empty listing set in
\* which the only entry of that name carries no number.
SuccessWithoutContributions ==
  \E r \in Runs : \E i \in Tasks(r) :
    /\ run[r].task[i].pc = "done"
    /\ Len(run[r].task[i].allTeachers) > 0
    /\ \E k \in 1..Len(run[r].task[i].allTeachers) :
         find(run[r].task[i].allTeachers[k].categories, Subcategories(r)[i].name) # 0
    /\ Contributing(run[r].task[i].allTeachers, Subcategories(r)[i].name) = {}
    /\ run[r].task[i].result = SuccessResult(Subcategories(r)[i].name, 0, 0)


\* ------------------------------------------------------ C11, C12, C13
\* C11: from the click that starts a run until all its tasks have produced
\* their outcomes the observable Report is empty; whenever it is not empty it
\* is the full list of the last run's outcomes, one per task, none pending.
ReportNeverPartial ==
  \A r \in Runs :
    /\ ~Finished(r) => results = << >>
    /\ (IsLast(r) /\ results # << >>) =>
         /\ Finished(r)
         /\ Len(results) = Len(run[r].task)
         /\ \A i \in Tasks(r) :
              run[r].task[i].pc = "done" /\ results[i] = run[r].task[i].result

\* C11 witness: one task of a run has produced a Success while a sibling
\* still awaits an answer, and the observable Report is empty.
OutcomeHiddenWhileSiblingPending ==
  \E r \in Runs : \E i, j \in Tasks(r) :
    /\ ~Finished(r)
    /\ run[r].task[i].pc = "done"
    /\ run[r].task[i].result.status = "success"
    /\ run[r].task[j].pc # "done"
    /\ results = << >>


\* C12: whenever the component is idle after at least one run, it shows
\* either the one top-level error of the last run or the last run's full
\* Report, and never a non-null error together with a non-empty Report.
IdleShowsErrorOrReport ==
  (~isLoading /\ Len(run) > 0) =>
    /\ ~(error # null /\ results # << >>)
    /\ error # null \/ results # << >>
    /\ error # null => run[Len(run)].errors = << error >>
    /\ results # << >> =>
         /\ results = run[Len(run)].settledResults
         /\ Len(results) = Len(CatalogSubcategories)

\* C12 witness: idle after the second run, with a Report that holds a Failure
\* outcome and no top-level error.
IdleWithFailureRowAndNoError ==
  /\ ~isLoading
  /\ Len(run) = 2
  /\ error = null
  /\ \E i \in 1..Len(results) : results[i].status = "error"
  /\ \E i \in 1..Len(results) : results[i].status = "success"


\* C13: two finished runs against the same upstream answers have equal
\* Reports (same rows, same averages, statuses and order) and equal top-level
\* errors, whatever order their tasks' answers arrived in.
RunsAgreeOnReport ==
  \A r1, r2 \in Runs :
    (Finished(r1) /\ Finished(r2)) =>
      /\ run[r1].settledResults = run[r2].settledResults
      /\ run[r1].errors = run[r2].errors
      /\ IsLast(r2) => results = run[r1].settledResults

\* C13 witness: two finished runs whose tasks settled in different orders,
\* with a Report of two different rows.
SameReportFromDifferentInterleavings ==
  /\ Len(run) = 2
  /\ Finished(1)
  /\ Finished(2)
  /\ Len(results) = 2
  /\ results[1] # results[2]
  /\ run[1].completed # run[2].completed


\* ------------------------------------------------------ C14
\* The position of the teacher's first entry of that name
FirstMatch(teacher, name) ==
  CHOOSE j \in 1..Len(teacher.categories) :
    /\ teacher.categories[j].name = name
    /\ \A h \in 1..(j - 1) : teacher.categories[h].name # name

\* The prices that contribute to the average of that name, in listing order
ContributedPrices(teachers, name) ==
  LET c == SelectSeq(teachers, LAMBDA x : Contributes(x, name))
  IN [k \in 1..Len(c) |-> c[k].categories[FirstMatch(c[k], name)].pricePerHour]

RECURSIVE SumFrom(_, _)
SumFrom(prices, i) ==
  IF i > Len(prices) THEN 0 ELSE prices[i] + SumFrom(prices, i + 1)

Aggregated(r, i) ==
  run[r].task[i].pc \in { "awaitPost", "done" } /\ PostRequestsOf(r, i) # << >>

\* C14: the average that a task posts and reports is the sum of the
\* contributing prices over their count, rounded to the nearest cent (no
\* other cent value is nearer); 10.00, 10.00 and 10.01 give 10.00.
AverageRoundedToNearestCent ==
  \A r \in Runs : \A i \in Tasks(r) :
    LET t == run[r].task[i]
        prices == ContributedPrices(t.allTeachers, Subcategories(r)[i].name)
        n == Len(prices)
        d == t.roundedAveragePrice * n - SumFrom(prices, 1)
    IN (Aggregated(r, i) /\ n > 0) =>
         /\ 2 * d <= n
         /\ 2 * (0 - d) <= n
         /\ PostRequestsOf(r, i)[1].body.averagePrice = t.roundedAveragePrice
         /\ t.result.status = "success" => t.result.averagePrice = t.roundedAveragePrice
         /\ prices = << 1000, 1000, 1001 >> => t.roundedAveragePrice = 1000

\* C14 witness: a Success of 10.00 over the contributions 10.00, 10.00, 10.01.
TenDollarsOverThreeContributions ==
  \E r \in Runs : \E i \in Tasks(r) :
    /\ run[r].task[i].pc = "done"
    /\ ContributedPrices(run[r].task[i].allTeachers, Subcategories(r)[i].name)
         = << 1000, 1000, 1001 >>
    /\ run[r].task[i].result.status = "success"
    /\ run[r].task[i].result.averagePrice = 1000


\* ------------------------------------------------------ C15
HasPendingRequest(r) ==
  \/ run[r].pc = "awaitCategories"
  \/ \E i \in Tasks(r) : run[r].task[i].pc \in { "awaitSearch", "awaitPost" }

\* C15: the busy flag is true exactly while a run is in flight: true from the
\* trigger until the run has ended, false once every run has ended (with a
\* Report, on a catalog failure or on an empty catalog), and never false while
\* some run has a pending request.
BusyExactlyWhileInFlight ==
  /\ isLoading <=> InFlight # {}
  /\ \A r \in Runs : HasPendingRequest(r) => isLoading
  /\ \A r \in Runs : HasPendingRequest(r) => ~Finished(r)

\* C15 witness: the first run has ended and the flag went back to true for a
\* second run, one of whose tasks has settled while the other awaits a page.
BusyAgainInSecondRun ==
  /\ Len(run) = 2
  /\ Finished(1)
  /\ isLoading
  /\ \E i, j \in Tasks(2) :
       run[2].task[i].pc = "done" /\ run[2].task[j].pc = "awaitSearch"


\* ------------------------------------------------------ C16
\* The page sequence of the listing yields an empty page or a failure
PagerEnds(listing) ==
  \/ \E p \in 1..Len(listing.pages) : ~NonEmptyPage(listing.pages[p])
  \/ ~NonEmptyPage(listing.rest)

\* The catalog is served and some subcategory of it has an endless listing
EndlessAsked ==
  /\ ~CatalogFetchFailed
  /\ \E code \in AskedCodes : ~PagerEnds(searchService[code])

\* C16: when every request is answered, a triggered run returns to idle if
\* every subcategory's page sequence yields an empty or a failed page; and a
\* subcategory whose listing never does keeps the run busy for ever, without
\* a Report, whatever its siblings do.
RunEndsIffPagersEnd ==
  /\ (isLoading /\ ~EndlessAsked) ~> ~isLoading
  /\ [][(isLoading /\ EndlessAsked) => (isLoading' /\ results' = << >>)]_vars

\* C16 witness: a run is busy without a Report, every task but the one over
\* the endless listing has settled, and that one is still asking for pages.
BusyOverEndlessListing ==
  \E r \in Runs : \E i, j \in Tasks(r) :
    /\ isLoading
    /\ results = << >>
    /\ ~PagerEnds(ListingOf(r, i))
    /\ run[r].task[i].pc = "awaitSearch"
    /\ run[r].task[i].page = MaxPage
    /\ PagerEnds(ListingOf(r, j))
    /\ run[r].task[j].pc = "done"


\* ------------------------------------------------------ C17
\* C17: the requests of a task are, in the order issued, its page requests
\* with the indices 0, 1, 2, ... (hence none twice), the next one only once
\* the one before is answered, then at most one publish request, issued only
\* when the pagination has ended, and nothing after it.
TaskIsSequential ==
  \A r \in Runs : \A i \in Tasks(r) :
    LET t == run[r].task[i]
        s == run[r].sent[i]
        n == Len(SearchRequestsOf(r, i))
        posts == Len(PostRequestsOf(r, i))
    IN /\ Len(s) = n + posts
       /\ n >= 1
       /\ \A k \in 1..n : s[k] = SearchRequest(Subcategories(r)[i].code, k - 1)
       /\ posts <= 1
       /\ posts = 1 => (s[Len(s)].url = "/average-price" /\ PagerOver(r, i))
       /\ t.pc = "awaitSearch" => n = t.page + 1
       /\ t.pc = "awaitPost" => posts = 1
       /\ t.pc = "done" => \A k \in 1..(Len(s) - 1) : s[k].url = "/search"

\* C17 witness: a settled task that asked for the pages 0, 1, 2, 3 and then
\* published once.
FourPagesThenOnePublish ==
  \E r \in Runs : \E i \in Tasks(r) :
    /\ run[r].task[i].pc = "done"
    /\ Len(run[r].sent[i]) = 5
    /\ \A k \in 1..4 : run[r].sent[i][k].body.page = k - 1
    /\ run[r].sent[i][5].url = "/average-price"


\* ------------------------------------------------------ C18
\* A page request of the task was rejected
SearchRaised(r, i) ==
  \E k \in 1..Len(SearchRequestsOf(r, i)) : search(SearchRequestsOf(r, i)[k]).rejected

\* The message of the exception raised in the settled task, null when none was
RaisedMessage(r, i) ==
  LET name == Subcategories(r)[i].name
  IN IF SearchRaised(r, i) THEN TransportError
     ELSE IF PostRequestsOf(r, i) = << >> THEN null
     ELSE IF priceService[name].rejected THEN TransportError
     ELSE IF ~priceService[name].ok THEN "Failed to post average price for " \o name
     ELSE null

\* C18: an exception raised in a task (by a page fetch or by the publish)
\* becomes that subcategory's Failure outcome with the exception's message and
\* the average 0, whatever average had been computed; the run's top-level
\* error stays unset, the Report can always be produced once every task has
\* settled, and it holds that outcome.
TaskExceptionBecomesFailure ==
  \A r \in Runs :
    /\ run[r].task # << >> =>
         /\ run[r].errors = << >>
         /\ IsLast(r) => error = null
    /\ (run[r].pc = "awaitAll" /\ \A i \in Tasks(r) : run[r].task[i].pc = "done") =>
         ENABLED AllSettled(r)
    /\ \A i \in Tasks(r) :
         (run[r].task[i].pc = "done" /\ RaisedMessage(r, i) # null) =>
           /\ run[r].task[i].result =
                [categoryName |-> Subcategories(r)[i].name, averagePrice |-> 0,
                 status |-> "error", message |-> RaisedMessage(r, i)]
           /\ Finished(r) =>
                /\ Len(run[r].settledResults) = Len(run[r].task)
                /\ run[r].settledResults[i] = run[r].task[i].result

\* C18 witness: the Report is shown without a top-level error, and it holds a
\* Failure with the average 0 for a task that had computed a non-zero average
\* before its publish raised.
FailureWithZeroAfterNonZeroAverage ==
  \E r \in Runs : \E i \in Tasks(r) :
    /\ Finished(r)
    /\ IsLast(r)
    /\ error = null
    /\ results = run[r].settledResults
    /\ run[r].task[i].roundedAveragePrice # 0
    /\ results[i].status = "error"
    /\ results[i].averagePrice = 0
    /\ results[i].message = "Failed to post average price for " \o Subcategories(r)[i].name


\* ------------------------------------------------------ C19
\* The outcome of task i is backed by its one publish request, which succeeded
BackedByPublish(r, i, outcome) ==
  /\ outcome.categoryName = Subcategories(r)[i].name
  /\ PostRequestsOf(r, i) =
       << [url |-> "/average-price",
           body |-> [categoryName |-> outcome.categoryName,
                     averagePrice |-> outcome.averagePrice]] >>
  /\ ~publish(PostRequestsOf(r, i)[1]).rejected
  /\ publish(PostRequestsOf(r, i)[1]).ok

\* C19: every Success outcome, of a settled task and of the Report, has
\* exactly one publish request of its task behind it, with the outcome's
\* subcategory name and rounded average, and that request succeeded; a task
\* whose publish was not sent or failed has no Success outcome.
SuccessMeansPublished ==
  \A r \in Runs : \A i \in Tasks(r) :
    /\ run[r].task[i].result.status = "success" =>
         BackedByPublish(r, i, run[r].task[i].result)
    /\ (Finished(r) /\ run[r].settledResults[i].status = "success") =>
         BackedByPublish(r, i, run[r].settledResults[i])
    /\ (Finished(r) /\ IsLast(r) /\ results[i].status = "success") =>
         BackedByPublish(r, i, results[i])
    /\ (run[r].task[i].pc = "done"
          /\ (PostRequestsOf(r, i) = << >> \/ PublishFails(Subcategories(r)[i].name))) =>
         run[r].task[i].result.status = "error"

\* C19 witness: the Report holds a Success with a non-zero average, whose
\* publish request carried that average, next to a Failure.
SuccessBackedByPublishInReport ==
  \E r \in Runs : \E i, j \in Tasks(r) :
    /\ Finished(r)
    /\ IsLast(r)
    /\ results[i].status = "success"
    /\ results[i].averagePrice # 0
    /\ PostRequestsOf(r, i)[1].body.averagePrice = results[i].averagePrice
    /\ results[j].status = "error"


\* ------------------------------------------------------ C20
\* C20: what a task adds up is, for each listing, at most one price: that of
\* the listing's first entry whose name is exactly the subcategory's name,
\* when it is a number; entries of the same name after it, and entries whose
\* name differs in the case of a letter, add nothing.
OnlyFirstExactMatchCounts ==
  \A r \in Runs : \A i \in Tasks(r) :
    LET t == run[r].task[i]
        prices == ContributedPrices(t.allTeachers, Subcategories(r)[i].name)
    IN Aggregated(r, i) =>
         /\ t.teachersWithPriceForCategory = Len(prices)
         /\ t.teachersWithPriceForCategory <= Len(t.allTeachers)
         /\ t.totalPrice = SumFrom(prices, 1)

\* C20 witness: a task for "Math" has aggregated a listing whose first "Math"
\* entry carries no number and whose second one does, and counted nothing.
LaterEntryOfSameNameIgnored ==
  \E r \in Runs : \E i \in Tasks(r) : \E k \in 1..Len(run[r].task[i].allTeachers) :
    LET categories == run[r].task[i].allTeachers[k].categories
    IN /\ Aggregated(r, i)
       /\ Subcategories(r)[i].name = "Math"
       /\ Len(categories) = 2
       /\ categories[1].name = "Math" /\ categories[1].typeofPricePerHour # "number"
       /\ categories[2].name = "Math" /\ categories[2].typeofPricePerHour = "number"
       /\ run[r].task[i].teachersWithPriceForCategory = 0
       /\ run[r].task[i].totalPrice = 0

====
